---- MODULE Spec2Model ----
(***************************************************************************)
(* State-machine model of shash::SpatialHash (src/SpatialHash.h), in its   *)
(* default instantiation SpatialHash<Value, hashing::Murmur,               *)
(* reduction::FastRange, 5>.                                               *)
(*                                                                         *)
(* 32-bit unsigned words are pairs <<hi, lo>> of 16-bit halves, so that    *)
(* every intermediate product stays below 2^31 and the arithmetic keeps    *)
(* its width (everything is taken modulo 2^32 as in the C++ code).         *)
(***************************************************************************)
EXTENDS Integers, Sequences, FiniteSets, TLC

(***************************************************************************)
(* 32-bit word arithmetic                                                  *)
(***************************************************************************)
W16 == 65536

Pow2(n) == 2 ^ n

\* (uint32_t) n for an int n: two's complement, as a pair of halves
ToWord(n) == << (n \div W16) % W16, n % W16 >>

RECURSIVE XorN(_, _, _)
XorN(a, b, n) ==
    IF n = 0 THEN 0
    ELSE ((a + b) % 2) + 2 * XorN(a \div 2, b \div 2, n - 1)

Xor32(u, v) == << XorN(u[1], v[1], 16), XorN(u[2], v[2], 16) >>

Add32(u, v) ==
    LET lo == u[2] + v[2]
        hi == u[1] + v[1] + (lo \div W16)
    IN  << hi % W16, lo % W16 >>

\* the full 32-bit product of two 16-bit numbers
MulFull16(a, b) ==
    LET p1 == a * (b % 256)
        p2 == a * (b \div 256)
        t  == ((p2 % 256) * 256) + p1
    IN  << ((p2 \div 256) + (t \div W16)) % W16, t % W16 >>

\* u * v modulo 2^32
Mul32(u, v) ==
    LET r     == MulFull16(u[2], v[2])
        cross == (MulFull16(u[1], v[2])[2] + MulFull16(u[2], v[1])[2]) % W16
    IN  << (r[1] + cross) % W16, r[2] >>

\* u >> r, 0 < r <= 16
Shr32(u, r) ==
    IF r = 16 THEN << 0, u[1] >>
    ELSE << u[1] \div Pow2(r),
            ((u[1] % Pow2(r)) * Pow2(16 - r)) + (u[2] \div Pow2(r)) >>

\* (x << r) | (x >> (32 - r)), 0 < r < 16
rotl32(u, r) ==
    << ((u[1] * Pow2(r)) % W16) + (u[2] \div Pow2(16 - r)),
       ((u[2] * Pow2(r)) % W16) + (u[1] \div Pow2(16 - r)) >>

(***************************************************************************)
(* hashing::Murmur                                                         *)
(***************************************************************************)
SEED == 15953071

MurmurC1 == << 52382, 11601 >>     \* 0xcc9e2d51
MurmurC2 == <<  7047, 13715 >>     \* 0x1b873593
MurmurN  == << 58964, 27492 >>     \* 0xe6546b64
FmixM1   == << 34283, 51819 >>     \* 0x85ebca6b
FmixM2   == << 49842, 44597 >>     \* 0xc2b2ae35

fmix(h) ==
    LET a == Xor32(h, Shr32(h, 16))
        b == Mul32(a, FmixM1)
        c == Xor32(b, Shr32(b, 13))
        d == Mul32(c, FmixM2)
    IN  Xor32(d, Shr32(d, 16))

\* one iteration of the block loop of Murmur::hash
MurmurRound(h1, w) ==
    LET k1 == Mul32(rotl32(Mul32(w, MurmurC1), 15), MurmurC2)
        h  == rotl32(Xor32(h1, k1), 13)
    IN  Add32(Mul32(h, ToWord(5)), MurmurN)

\* Murmur::hash over the four words of buf
MurmurHash(buf) ==
    LET h1 == MurmurRound(MurmurRound(MurmurRound(MurmurRound(
                  ToWord(SEED), buf[1]), buf[2]), buf[3]), buf[4])
    IN  fmix(Xor32(h1, ToWord(4 * 4)))

(***************************************************************************)
(* reduction::FastRange                                                    *)
(***************************************************************************)
\* ((uint64_t)hash * (uint64_t)buckets) >> 32, for buckets < 2^15
FastRange(hash, buckets) ==
    ((hash[1] * buckets) + ((hash[2] * buckets) \div W16)) \div W16

\* u < v for 32-bit words (the high half of u may hold a carry)
Less32(u, v) == u[1] < v[1] \/ (u[1] = v[1] /\ u[2] < v[2])

\* u - v for words u >= v
Sub32(u, v) ==
    IF u[2] >= v[2] THEN << u[1] - v[1], u[2] - v[2] >>
    ELSE << u[1] - v[1] - 1, u[2] + W16 - v[2] >>

\* bit i of word u, bit 0 the lowest
Bit32(u, i) ==
    IF i >= 16 THEN (u[1] \div Pow2(i - 16)) % 2 ELSE (u[2] \div Pow2(i)) % 2

\* 2 * r + bit, the high half taking the carry
ShiftIn(r, bit) ==
    << (2 * r[1]) + (((2 * r[2]) + bit) \div W16), ((2 * r[2]) + bit) % W16 >>

\* the remainder of hash by buckets by binary long division: r < buckets is
\* the remainder of the bits above bit i, the bits i..0 are still to come
RECURSIVE ModBits(_, _, _, _)
ModBits(hash, buckets, r, i) ==
    IF i < 0 THEN r
    ELSE IF Less32(ShiftIn(r, Bit32(hash, i)), buckets)
    THEN ModBits(hash, buckets, ShiftIn(r, Bit32(hash, i)), i - 1)
    ELSE ModBits(hash, buckets, Sub32(ShiftIn(r, Bit32(hash, i)), buckets), i - 1)

\* a reduction that hands the hash back
reduce_unreduced(hash, buckets) == hash

\* a reduction that hands the hash back when it is an index of the table, and
\* 0 otherwise
reduce_clamped(hash, buckets) == IF Less32(hash, buckets) THEN hash ELSE << 0, 0 >>

\* reduction::Mod::reduce: hash % buckets, for words hash and buckets >= 1
Mod_reduce(hash, buckets) == ModBits(hash, buckets, << 0, 0 >>, 31)

\* the upper two of the four 16-bit limbs of a 64-bit product, given the
\* four partial products of the halves
UpperLimbs(p00, p01, p10, p11) ==
    << (p11[1] + ((p01[1] + p10[1] + p11[2]
                   + ((p00[1] + p01[2] + p10[2]) \div W16)) \div W16)) % W16,
       (p01[1] + p10[1] + p11[2] + ((p00[1] + p01[2] + p10[2]) \div W16)) % W16 >>

\* reduction::FastRange::reduce: ((uint64_t)hash * (uint64_t)buckets) >> 32,
\* for words hash and buckets
FastRange_reduce(hash, buckets) ==
    UpperLimbs(MulFull16(hash[2], buckets[2]), MulFull16(hash[2], buckets[1]),
               MulFull16(hash[1], buckets[2]), MulFull16(hash[1], buckets[1]))

\* reduction::Identity::reduce: the hash itself
Identity_reduce(hash, buckets) == hash

\* the key buf = {x, y, salt, seed} of get_bucket, hashed with Murmur
HashOfKey(x, y, salt, seed) ==
    MurmurHash(<< ToWord(x), ToWord(y), ToWord(salt), seed >>)

(***************************************************************************)
(* Bounds of the model                                                     *)
(***************************************************************************)
CoordRadius == 1              \* callers pass coordinates -CoordRadius..CoordRadius-1
MaxSalt == 1                  \* salts are 0..MaxSalt
NumValues == 2                \* values are 1..NumValues
MaxOps == 3                   \* API calls in one run
MaxTableSize == 2            \* buckets of the table
MaxRounds == 2                \* resets in one run
RunawayCap == 2               \* cells a segment loop may leave the grid by

Coords == (-CoordRadius)..(CoordRadius - 1)
Salts == 0..MaxSalt
Values == 1..NumValues
CellSizes == {1, 2}           \* both have an exact reciprocal in a double
TableSizes == 1..MaxTableSize
PreResults == { << >>, << 0 >> }   \* what the caller's vector holds before a query

REHASH_ROUNDS == 5

\* a last_claimed left at 0 in a bucket that was never claimed
SENTINEL_zero == << 0, 0 >>

\* unsigned int last_claimed = -1
SENTINEL == << 65535, 65535 >>

\* HashFunction::hash(buf) for every key the bounded runs can build, computed
\* once: cells up to the farthest a loop's cursor gets, seeds up to the last
\* probe of the last generation
CachedCells == (-(CoordRadius + RunawayCap + 2))..(CoordRadius + RunawayCap + 2)
CachedSeeds == { << 0, s >> : s \in 1..(MaxRounds + REHASH_ROUNDS + 1) }
HashCache ==
    [ k \in CachedCells \X CachedCells \X Salts \X CachedSeeds |->
        HashOfKey(k[1], k[2], k[3], k[4]) ] @@ << >>

Hash(x, y, salt, seed) == HashCache[<< x, y, salt, seed >>]

(***************************************************************************)
(* The table                                                               *)
(***************************************************************************)
VARIABLES
    hash_table,       \* _hash_table: sequence of HashBucket
    table_size,       \* _table_size
    inv_cell_size,    \* _inv_cell_size, the rational << num, den >>
    current_round,    \* _current_round, a 32-bit word
    result,           \* the caller's result vector after the latest query
    pc,               \* "idle", or the segment operation whose loop is running
    seg,              \* the locals of the running segment loop
    last,             \* history: the latest API call and its arguments
    calls,            \* history: the get_bucket calls of the latest API call
    inserted,         \* history: key -> values inserted in this generation
    before,           \* history: what inserted was at the latest reset
    first,            \* history: key -> bucket of its first get_bucket call
    exhausted,        \* history: a get_bucket of this generation ran out of probes
    nops,             \* history: API calls so far
    nresets,          \* history: resets so far
    reduced           \* history: the latest ReduceFunction::reduce call

vars == << hash_table, table_size, inv_cell_size, current_round, result, pc, seg,
           last, calls, inserted, before, first, exhausted, nops,
           nresets, reduced >>

\* HashBucket() : value-initialised, last_claimed = -1
HashBucket == [ x |-> 0, y |-> 0, last_claimed |-> SENTINEL, data |-> << >> ]

\* std::vector::resize(n, HashBucket())
Resize(tbl, n) ==
    [ i \in 1..n |-> IF i <= Len(tbl) THEN tbl[i] ELSE HashBucket ]

\* std::floor(coordinate * _inv_cell_size)
cell(coordinate) == (coordinate * inv_cell_size[1]) \div inv_cell_size[2]

\* One probe of get_bucket and the probes after it; i counts from 0.
\* Returns the table after the call, the bucket returned (index from 1) and
\* how the loop ended.
RECURSIVE probe(_, _, _, _, _)

\* the body of the probe loop once the index idx of the bucket is computed
probe_bucket(tbl, x, y, salt, i, idx) ==
    LET b == tbl[idx]
    IN  IF b.last_claimed # current_round
        THEN [ table  |-> [ tbl EXCEPT ![idx] =
                              [ x |-> x, y |-> y,
                                last_claimed |-> current_round,
                                data |-> << >> ] ],
               bucket |-> idx, how |-> "claimed", probes |-> i + 1 ]
        ELSE IF b.x = x /\ b.y = y
        THEN [ table |-> tbl, bucket |-> idx, how |-> "found", probes |-> i + 1 ]
        ELSE IF i < REHASH_ROUNDS
        THEN probe(tbl, x, y, salt, i + 1)
        ELSE [ table |-> tbl, bucket |-> idx, how |-> "exhausted", probes |-> i + 1 ]

\* buf[3] = _current_round + 1 + i; index = ReduceFunction::reduce(hash, size)
bucket_index(x, y, salt, i) ==
    FastRange(Hash(x, y, salt, Add32(current_round, ToWord(i + 1))), table_size) + 1

probe(tbl, x, y, salt, i) ==
    probe_bucket(tbl, x, y, salt, i, bucket_index(x, y, salt, i))

\* get_bucket with one of four slips:
\*   "skip_own" : the else-if branch is missing, a bucket of the same cell
\*                counts as a collision
\*   "no_clear" : a claim does not clear the stale data
\*   "reclaim"  : a bucket of the same cell is cleared again when found
\*   "reclaim_last" : the last bucket is claimed when the probes run out
RECURSIVE probe_slip(_, _, _, _, _, _)
probe_slip(tbl, x, y, salt, i, slip) ==
    LET idx == bucket_index(x, y, salt, i)
        b   == tbl[idx]
    IN  IF b.last_claimed # current_round
        THEN [ table  |-> [ tbl EXCEPT ![idx] =
                              [ x |-> x, y |-> y,
                                last_claimed |-> current_round,
                                data |-> IF slip = "no_clear" THEN b.data
                                         ELSE << >> ] ],
               bucket |-> idx, how |-> "claimed", probes |-> i + 1 ]
        ELSE IF b.x = x /\ b.y = y /\ slip # "skip_own"
        THEN [ table |-> IF slip = "reclaim"
                         THEN [ tbl EXCEPT ![idx].data = << >> ] ELSE tbl,
               bucket |-> idx, how |-> "found", probes |-> i + 1 ]
        ELSE IF i < REHASH_ROUNDS
        THEN probe_slip(tbl, x, y, salt, i + 1, slip)
        ELSE [ table |-> IF slip = "reclaim_last"
                         THEN [ tbl EXCEPT ![idx] =
                                  [ x |-> x, y |-> y,
                                    last_claimed |-> current_round,
                                    data |-> << >> ] ]
                         ELSE tbl,
               bucket |-> idx, how |-> "exhausted", probes |-> i + 1 ]

get_bucket_skip_own(tbl, x, y, salt) == probe_slip(tbl, x, y, salt, 0, "skip_own")

get_bucket_no_clear(tbl, x, y, salt) == probe_slip(tbl, x, y, salt, 0, "no_clear")

get_bucket_reclaim(tbl, x, y, salt) == probe_slip(tbl, x, y, salt, 0, "reclaim")

get_bucket_reclaim_last(tbl, x, y, salt) ==
    probe_slip(tbl, x, y, salt, 0, "reclaim_last")

get_bucket(tbl, x, y, salt) == probe(tbl, x, y, salt, 0)

(***************************************************************************)
(* The operations, as functions of a machine record                        *)
(*   m = [table, result, calls]                                            *)
(* table is _hash_table, result the caller's vector, calls the history of  *)
(* the get_bucket calls made so far by the running operation.              *)
(***************************************************************************)
Machine(pre) == [ table |-> hash_table, result |-> pre, calls |-> << >> ]

\* history record of one get_bucket call on table tbl: the bucket returned, how
\* the probe loop ended and after how many probes, what that bucket held
\* before (prior) and after (data) the call, the last_claimed it had before the
\* call (was), and whether the key was already looked up in this generation
Call(r, tbl, x, y, salt) ==
    [ x |-> x, y |-> y, salt |-> salt, bucket |-> r.bucket, how |-> r.how,
      probes |-> r.probes,
      prior |-> tbl[r.bucket].data,
      data |-> r.table[r.bucket].data,
      was |-> tbl[r.bucket].last_claimed,
      repeat |-> << x, y, salt >> \in DOMAIN first ]

\* bucket->data.push_back(value)
push_back(tbl, bucket, value) ==
    [ tbl EXCEPT ![bucket].data = Append(@, value) ]

\* result.insert(result.begin(), bucket->data.begin(), bucket->data.end())
insert_range(res, data) == data \o res

\* insert_at_cell after its get_bucket call returned r
insert_into_bucket(m, r, x, y, value, salt) ==
    [ table  |-> push_back(r.table, r.bucket, value),
      result |-> m.result,
      calls  |-> Append(m.calls, Call(r, m.table, x, y, salt)) ]

insert_at_cell(m, x, y, value, salt) ==
    insert_into_bucket(m, get_bucket(m.table, x, y, salt), x, y, value, salt)

insert_at_point(m, x, y, value, salt) ==
    insert_at_cell(m, cell(x), cell(y), value, salt)

\* query_at_cell after its get_bucket call returned r
query_from_bucket(m, r, x, y, salt) ==
    [ table  |-> r.table,
      result |-> insert_range(m.result, r.table[r.bucket].data),
      calls  |-> Append(m.calls, Call(r, m.table, x, y, salt)) ]

query_at_cell(m, x, y, salt) ==
    query_from_bucket(m, get_bucket(m.table, x, y, salt), x, y, salt)

\* a bare get_bucket call by the caller, who leaves the bucket as returned
bucket_returned(m, r, x, y, salt) ==
    [ table  |-> r.table,
      result |-> m.result,
      calls  |-> Append(m.calls, Call(r, m.table, x, y, salt)) ]

query_at_point(m, x, y, salt) ==
    query_at_cell(m, cell(x), cell(y), salt)

\* the body of the two loops of insert_at_aabb (kind "insert") and of
\* query_at_aabb (kind "query")
visit(m, kind, x, y, value, salt) ==
    IF kind = "insert" THEN insert_at_cell(m, x, y, value, salt)
    ELSE query_at_cell(m, x, y, salt)

\* for (int j = ...; j <= bottom_right_y_cell; j++)
RECURSIVE aabb_inner_excl(_, _, _, _, _, _, _)
aabb_inner_excl(m, kind, i, j, bry, value, salt) ==
    IF j < bry
    THEN aabb_inner_excl(visit(m, kind, i, j, value, salt),
                         kind, i, j + 1, bry, value, salt)
    ELSE m

\* the inner loop with its bounds put in order first, so that an inverted
\* box is treated as the box between the same corners
RECURSIVE aabb_inner_from(_, _, _, _, _, _, _)
aabb_inner_from(m, kind, i, j, bry, value, salt) ==
    IF j <= bry
    THEN aabb_inner_from(visit(m, kind, i, j, value, salt),
                         kind, i, j + 1, bry, value, salt)
    ELSE m

aabb_inner_swapped(m, kind, i, j, bry, value, salt) ==
    IF j <= bry
    THEN aabb_inner_from(m, kind, i, j, bry, value, salt)
    ELSE aabb_inner_from(m, kind, i, bry, j, value, salt)

RECURSIVE aabb_inner(_, _, _, _, _, _, _)
aabb_inner(m, kind, i, j, bry, value, salt) ==
    IF j <= bry
    THEN aabb_inner(visit(m, kind, i, j, value, salt),
                    kind, i, j + 1, bry, value, salt)
    ELSE m

\* for (int i = ...; i <= bottom_right_x_cell; i++)
RECURSIVE aabb_outer(_, _, _, _, _, _, _, _)
aabb_outer(m, kind, i, brx, tly, bry, value, salt) ==
    IF i <= brx
    THEN aabb_outer(aabb_inner(m, kind, i, tly, bry, value, salt),
                    kind, i + 1, brx, tly, bry, value, salt)
    ELSE m

insert_at_aabb(m, tlx, tly, brx, bry, value, salt) ==
    aabb_outer(m, "insert", cell(tlx), cell(brx), cell(tly), cell(bry), value, salt)

query_at_aabb(m, tlx, tly, brx, bry, salt) ==
    aabb_outer(m, "query", cell(tlx), cell(brx), cell(tly), cell(bry), 0, salt)

Abs(n) == IF n < 0 THEN -n ELSE n

\* the locals of query_at_segment before its loop; xs, ys keep the start cell
query_segment_locals(start_x, start_y, end_x, end_y, value, salt) ==
    LET x0 == cell(start_x)
        y0 == cell(start_y)
        x1 == cell(end_x)
        y1 == cell(end_y)
        dx == Abs(x1 - x0)
        dy == Abs(y1 - y0)
    IN  [ kind |-> "query", xs |-> x0, ys |-> y0, x0 |-> x0, y0 |-> y0,
          x1 |-> x1, y1 |-> y1, dx |-> dx, dy |-> dy,
          sx |-> IF x0 < x1 THEN 1 ELSE -1,
          sy |-> IF y0 < y1 THEN 1 ELSE -1,
          err |-> dx + dy, value |-> value, salt |-> salt ]

\* insert_at_segment's locals with dy taken without the minus sign
insert_segment_locals_plus_dy(start_x, start_y, end_x, end_y, value, salt) ==
    LET x0 == cell(start_x)
        y0 == cell(start_y)
        x1 == cell(end_x)
        y1 == cell(end_y)
        dx == Abs(x1 - x0)
        dy == Abs(y1 - y0)
    IN  [ kind |-> "insert", xs |-> x0, ys |-> y0, x0 |-> x0, y0 |-> y0,
          x1 |-> x1, y1 |-> y1, dx |-> dx, dy |-> dy,
          sx |-> IF x0 < x1 THEN 1 ELSE -1,
          sy |-> IF y0 < y1 THEN 1 ELSE -1,
          err |-> dx + dy, value |-> value, salt |-> salt ]

\* the locals of insert_at_segment before its loop
insert_segment_locals(start_x, start_y, end_x, end_y, value, salt) ==
    LET x0 == cell(start_x)
        y0 == cell(start_y)
        x1 == cell(end_x)
        y1 == cell(end_y)
        dx == Abs(x1 - x0)
        dy == -Abs(y1 - y0)
    IN  [ kind |-> "insert", xs |-> x0, ys |-> y0, x0 |-> x0, y0 |-> y0,
          x1 |-> x1, y1 |-> y1, dx |-> dx, dy |-> dy,
          sx |-> IF x0 < x1 THEN 1 ELSE -1,
          sy |-> IF y0 < y1 THEN 1 ELSE -1,
          err |-> dx + dy, value |-> value, salt |-> salt ]

\* the loop's exit test: if (x0 == x1 && y0 == y1) break
at_end(l) == l.x0 = l.x1 /\ l.y0 = l.y1

\* the rest of one iteration of either segment loop: e2 = 2 * err; ...
segment_step(l) ==
    LET e2 == 2 * l.err
    IN  IF e2 > l.dy
        THEN [ l EXCEPT !.err = @ + l.dy, !.x0 = @ + l.sx ]
        ELSE IF e2 < l.dx
        THEN [ l EXCEPT !.err = @ + l.dx, !.y0 = @ + l.sy ]
        ELSE l

\* the cells insert_at_segment visits between two cells, in order
RECURSIVE walk(_)
walk(l) ==
    IF at_end(l) THEN << << l.x0, l.y0 >> >>
    ELSE << << l.x0, l.y0 >> >> \o walk(segment_step(l))

insert_path(x0, y0, x1, y1) ==
    walk([ kind |-> "insert", xs |-> x0, ys |-> y0, x0 |-> x0, y0 |-> y0,
           x1 |-> x1, y1 |-> y1, dx |-> Abs(x1 - x0), dy |-> -Abs(y1 - y0),
           sx |-> IF x0 < x1 THEN 1 ELSE -1,
           sy |-> IF y0 < y1 THEN 1 ELSE -1,
           err |-> Abs(x1 - x0) - Abs(y1 - y0), value |-> 0, salt |-> 0 ])

(***************************************************************************)
(* History bookkeeping                                                     *)
(***************************************************************************)
EmptyMap == [ k \in {} |-> 0 ]

Lookup(f, k, default) == IF k \in DOMAIN f THEN f[k] ELSE default

Put(f, k, v) == [ kk \in (DOMAIN f) \cup {k} |-> IF kk = k THEN v ELSE f[kk] ]

Key(c) == << c.x, c.y, c.salt >>

RECURSIVE NoteFirst(_, _)
NoteFirst(f, cs) ==
    IF cs = << >> THEN f
    ELSE NoteFirst(IF Key(Head(cs)) \in DOMAIN f THEN f
                   ELSE Put(f, Key(Head(cs)), Head(cs).bucket),
                   Tail(cs))

RECURSIVE NoteInserted(_, _, _)
NoteInserted(f, cs, value) ==
    IF cs = << >> THEN f
    ELSE NoteInserted(Put(f, Key(Head(cs)),
                          Append(Lookup(f, Key(Head(cs)), << >>), value)),
                      Tail(cs), value)

Range(s) == { s[i] : i \in DOMAIN s }

NoReduce == [ strategy |-> "none", hash |-> << 0, 0 >>, buckets |-> << 0, 1 >>,
              index |-> << 0, 0 >> ]

NoSeg == [ kind |-> "none", xs |-> 0, ys |-> 0, x0 |-> 0, y0 |-> 0, x1 |-> 0,
           y1 |-> 0, dx |-> 0, dy |-> 0, sx |-> 0, sy |-> 0, err |-> 0,
           value |-> 0, salt |-> 0 ]

\* the effect on the table, the result and the history of the part of an
\* operation that took machine record m0 to m
Effects(m0, m, isInsert, value) ==
    LET new == SubSeq(m.calls, Len(m0.calls) + 1, Len(m.calls))
    IN  /\ hash_table' = m.table
        /\ result' = m.result
        /\ calls' = m.calls
        /\ first' = NoteFirst(first, new)
        /\ inserted' = IF isInsert THEN NoteInserted(inserted, new, value)
                       ELSE inserted
        /\ exhausted' = (exhausted \/ \E i \in DOMAIN new : new[i].how = "exhausted")

\* the effect of a whole operation, which took Machine(pre) to m
Finish(m, op, args, pre, isInsert, value) ==
    /\ Effects(Machine(pre), m, isInsert, value)
    /\ last' = [ op |-> op, args |-> args, pre |-> pre ]
    /\ nops' = nops + 1
    /\ UNCHANGED << table_size, inv_cell_size, current_round, pc, seg, before,
                    nresets, reduced >>

(***************************************************************************)
(* Actions: the caller invokes one operation                               *)
(***************************************************************************)
Ready == pc = "idle" /\ nops < MaxOps

\* SpatialHash(cell_size, table_size)
Construct(cell_size, size) ==
    /\ hash_table = Resize(<< >>, size)
    /\ table_size = size
    /\ inv_cell_size = << 1, cell_size >>
    /\ current_round = << 0, 0 >>
    /\ result = << >>
    /\ pc = "idle"
    /\ seg = NoSeg
    /\ last = [ op |-> "SpatialHash", args |-> << cell_size, size >>, pre |-> << >> ]
    /\ calls = << >>
    /\ inserted = EmptyMap
    /\ before = EmptyMap
    /\ first = EmptyMap
    /\ exhausted = FALSE
    /\ nops = 0
    /\ nresets = 0
    /\ reduced = NoReduce

Init == \E cs \in CellSizes, size \in TableSizes : Construct(cs, size)

\* a reset that empties every bucket instead of leaving them to be reclaimed
reset_clearing(cell_size, size) ==
    /\ inv_cell_size' = << 1, cell_size >>
    /\ current_round' = Add32(current_round, ToWord(1))
    /\ table_size' = size
    /\ hash_table' = Resize(<< >>, size)
    /\ last' = [ op |-> "reset", args |-> << cell_size, size >>, pre |-> << >> ]
    /\ calls' = << >>
    /\ inserted' = EmptyMap
    /\ before' = inserted
    /\ first' = EmptyMap
    /\ exhausted' = FALSE
    /\ nops' = nops + 1
    /\ nresets' = nresets + 1
    /\ UNCHANGED << result, pc, seg, reduced >>

\* a reset that stores the new size and leaves the bucket array as it is
reset_no_resize(cell_size, size) ==
    /\ inv_cell_size' = << 1, cell_size >>
    /\ current_round' = Add32(current_round, ToWord(1))
    /\ table_size' = size
    /\ hash_table' = hash_table
    /\ last' = [ op |-> "reset", args |-> << cell_size, size >>, pre |-> << >> ]
    /\ calls' = << >>
    /\ inserted' = EmptyMap
    /\ before' = inserted
    /\ first' = EmptyMap
    /\ exhausted' = FALSE
    /\ nops' = nops + 1
    /\ nresets' = nresets + 1
    /\ UNCHANGED << result, pc, seg, reduced >>

\* reset(cell_size, size)
reset(cell_size, size) ==
    /\ inv_cell_size' = << 1, cell_size >>
    /\ current_round' = Add32(current_round, ToWord(1))
    /\ IF table_size # size
       THEN /\ table_size' = size
            /\ hash_table' = Resize(hash_table, size)
       ELSE UNCHANGED << table_size, hash_table >>
    /\ last' = [ op |-> "reset", args |-> << cell_size, size >>, pre |-> << >> ]
    /\ calls' = << >>
    /\ inserted' = EmptyMap
    /\ before' = inserted
    /\ first' = EmptyMap
    /\ exhausted' = FALSE
    /\ nops' = nops + 1
    /\ nresets' = nresets + 1
    /\ UNCHANGED << result, pc, seg, reduced >>

Reset ==
    /\ Ready
    /\ nresets < MaxRounds
    /\ \E cs \in CellSizes, size \in TableSizes : reset(cs, size)

GetBucket ==
    /\ Ready
    /\ \E x \in Coords, y \in Coords, salt \in Salts :
          Finish(bucket_returned(Machine(result),
                                 get_bucket(hash_table, x, y, salt), x, y, salt),
                 "get_bucket", << x, y, salt >>, result, FALSE, 0)

InsertAtCell ==
    /\ Ready
    /\ \E x \in Coords, y \in Coords, value \in Values, salt \in Salts :
          Finish(insert_at_cell(Machine(result), x, y, value, salt),
                 "insert_at_cell", << x, y, salt >>, result, TRUE, value)

InsertAtPoint ==
    /\ Ready
    /\ \E x \in Coords, y \in Coords, value \in Values, salt \in Salts :
          Finish(insert_at_point(Machine(result), x, y, value, salt),
                 "insert_at_point", << x, y, salt >>, result, TRUE, value)

QueryAtCell ==
    /\ Ready
    /\ \E pre \in PreResults, x \in Coords, y \in Coords, salt \in Salts :
          Finish(query_at_cell(Machine(pre), x, y, salt),
                 "query_at_cell", << x, y, salt >>, pre, FALSE, 0)

QueryAtPoint ==
    /\ Ready
    /\ \E pre \in PreResults, x \in Coords, y \in Coords, salt \in Salts :
          Finish(query_at_point(Machine(pre), x, y, salt),
                 "query_at_point", << x, y, salt >>, pre, FALSE, 0)

Next ==
    \/ Reset
    \/ GetBucket
    \/ InsertAtCell
    \/ InsertAtPoint
    \/ QueryAtCell
    \/ QueryAtPoint

Spec == Init /\ [][Next]_vars

(***************************************************************************)
(* Boxes: the table of the box test (one salt, a table with room for every *)
(* cell of the grid), driven by the box and point operations               *)
(***************************************************************************)
BoxTableSize == 8
BoxSalt == 1

InitBox == \E cs \in CellSizes : Construct(cs, BoxTableSize)

ResetBox ==
    /\ Ready
    /\ nresets < MaxRounds
    /\ \E cs \in CellSizes : reset(cs, BoxTableSize)

InsertAtAabb ==
    /\ Ready
    /\ \E tlx \in Coords, tly \in Coords, brx \in Coords, bry \in Coords,
          value \in Values :
          Finish(insert_at_aabb(Machine(<< >>), tlx, tly, brx, bry, value, BoxSalt),
                 "insert_at_aabb", << tlx, tly, brx, bry, BoxSalt >>, << >>,
                 TRUE, value)

QueryAtAabb ==
    /\ Ready
    /\ \E tlx \in Coords, tly \in Coords, brx \in Coords, bry \in Coords :
          Finish(query_at_aabb(Machine(<< >>), tlx, tly, brx, bry, BoxSalt),
                 "query_at_aabb", << tlx, tly, brx, bry, BoxSalt >>, << >>,
                 FALSE, 0)

QueryAtPointBox ==
    /\ Ready
    /\ \E x \in Coords, y \in Coords :
          Finish(query_at_point(Machine(<< >>), x, y, BoxSalt),
                 "query_at_point", << x, y, BoxSalt >>, << >>, FALSE, 0)

NextBox ==
    \/ ResetBox
    \/ InsertAtAabb
    \/ QueryAtAabb
    \/ QueryAtPointBox

SpecBox == InitBox /\ [][NextBox]_vars

(***************************************************************************)
(* Segments: the table of the segment test (one salt), driven by the       *)
(* segment and point operations.  The two segment loops run one iteration  *)
(* per step, so that a run shows where a loop is.                          *)
(***************************************************************************)
SegRadius == 1                \* callers pass segment coordinates -SegRadius..SegRadius
SegMaxOps == 2                \* API calls in one run
SegTableSize == 16
SegSalt == 1

SegCoords == (-SegRadius)..SegRadius

\* the cells the model lets a loop's cursor reach before it stops following it
InGrid(l) ==
    /\ Abs(l.x0) <= SegRadius + RunawayCap
    /\ Abs(l.y0) <= SegRadius + RunawayCap

ReadySeg == pc = "idle" /\ nops < SegMaxOps

InitSeg == \E cs \in CellSizes : Construct(cs, SegTableSize)

\* entry of insert_at_segment, up to its loop
StartInsertSegment ==
    /\ ReadySeg
    /\ \E xs \in SegCoords, ys \in SegCoords, xe \in SegCoords, ye \in SegCoords,
          value \in Values :
          /\ seg' = insert_segment_locals(xs, ys, xe, ye, value, SegSalt)
          /\ last' = [ op |-> "insert_at_segment",
                       args |-> << xs, ys, xe, ye, SegSalt >>, pre |-> << >> ]
    /\ pc' = "insert_at_segment"
    /\ calls' = << >>
    /\ nops' = nops + 1
    /\ UNCHANGED << hash_table, table_size, inv_cell_size, current_round, result,
                    inserted, before, first, exhausted, nresets, reduced >>

\* one iteration of the loop of insert_at_segment
InsertSegmentStep ==
    /\ pc = "insert_at_segment"
    /\ InGrid(seg)
    /\ LET m0 == [ table |-> hash_table, result |-> result, calls |-> calls ]
       IN  Effects(m0, insert_at_cell(m0, seg.x0, seg.y0, seg.value, seg.salt),
                   TRUE, seg.value)
    /\ IF at_end(seg)
       THEN pc' = "idle" /\ seg' = seg
       ELSE pc' = pc /\ seg' = segment_step(seg)
    /\ UNCHANGED << table_size, inv_cell_size, current_round, last, before, nops,
                    nresets, reduced >>

\* entry of query_at_segment, up to its loop
StartQuerySegment ==
    /\ ReadySeg
    /\ \E xs \in SegCoords, ys \in SegCoords, xe \in SegCoords, ye \in SegCoords :
          /\ seg' = query_segment_locals(xs, ys, xe, ye, 0, SegSalt)
          /\ last' = [ op |-> "query_at_segment",
                       args |-> << xs, ys, xe, ye, SegSalt >>, pre |-> << >> ]
    /\ pc' = "query_at_segment"
    /\ calls' = << >>
    /\ result' = << >>
    /\ nops' = nops + 1
    /\ UNCHANGED << hash_table, table_size, inv_cell_size, current_round,
                    inserted, before, first, exhausted, nresets, reduced >>

\* one iteration of the loop of query_at_segment
QuerySegmentStep ==
    /\ pc = "query_at_segment"
    /\ InGrid(seg)
    /\ LET m0 == [ table |-> hash_table, result |-> result, calls |-> calls ]
       IN  Effects(m0, query_at_cell(m0, seg.x0, seg.y0, seg.salt), FALSE, 0)
    /\ IF at_end(seg)
       THEN pc' = "idle" /\ seg' = seg
       ELSE pc' = pc /\ seg' = segment_step(seg)
    /\ UNCHANGED << table_size, inv_cell_size, current_round, last, before, nops,
                    nresets, reduced >>

QueryAtPointSeg ==
    /\ ReadySeg
    /\ \E x \in SegCoords, y \in SegCoords :
          /\ Effects(Machine(<< >>), query_at_point(Machine(<< >>), x, y, SegSalt),
                     FALSE, 0)
          /\ last' = [ op |-> "query_at_point", args |-> << x, y, SegSalt >>,
                       pre |-> << >> ]
    /\ nops' = nops + 1
    /\ UNCHANGED << table_size, inv_cell_size, current_round, pc, seg, before,
                    nresets, reduced >>

NextSeg ==
    \/ StartInsertSegment
    \/ InsertSegmentStep
    \/ StartQuerySegment
    \/ QuerySegmentStep
    \/ QueryAtPointSeg

SpecSeg == InitSeg /\ [][NextSeg]_vars

(***************************************************************************)
(* Reductions: the index get_bucket computes,                              *)
(*   ReduceFunction::reduce(HashFunction::hash(buf), _table_size),         *)
(* for each of the three reduction strategies, over the hashes of the keys *)
(* and the corner cases of a 32-bit hash, and over table sizes up to the   *)
(* largest an unsigned int holds                                           *)
(***************************************************************************)
ReduceHashes ==
    { HashCache[k] : k \in DOMAIN HashCache }
        \cup { << 0, 0 >>, << 0, 1 >>, << 0, 65535 >>, << 1, 0 >>, << 32767, 65535 >>,
               << 32768, 0 >>, << 65535, 65534 >>, << 65535, 65535 >> }

ReduceSizes ==
    { << 0, 1 >>, << 0, 2 >>, << 0, 3 >>, << 0, 7 >>, << 0, 1000 >>, << 0, 1024 >>,
      << 0, 32767 >>, << 0, 32768 >>, << 0, 65535 >>, << 1, 0 >>, << 1, 1 >>,
      << 32767, 65535 >>, << 32768, 0 >>, << 65535, 65535 >> }

InitReduce == Construct(1, 1)

\* a run makes one call of reduce
ReadyReduce == reduced = NoReduce

\* the call reduce(hash, buckets) of the strategy, giving index
Reduce(strategy, hash, buckets, index) ==
    /\ reduced' = [ strategy |-> strategy, hash |-> hash, buckets |-> buckets,
                    index |-> index ]
    /\ UNCHANGED << hash_table, table_size, inv_cell_size, current_round, result,
                    pc, seg, last, calls, inserted, before, first, exhausted,
                    nops, nresets >>

ReduceMod ==
    /\ ReadyReduce
    /\ \E hash \in ReduceHashes, buckets \in ReduceSizes :
          Reduce("Mod", hash, buckets, Mod_reduce(hash, buckets))

ReduceFastRange ==
    /\ ReadyReduce
    /\ \E hash \in ReduceHashes, buckets \in ReduceSizes :
          Reduce("FastRange", hash, buckets, FastRange_reduce(hash, buckets))

ReduceIdentity ==
    /\ ReadyReduce
    /\ \E hash \in ReduceHashes, buckets \in ReduceSizes :
          Reduce("Identity", hash, buckets, Identity_reduce(hash, buckets))

NextReduce ==
    \/ ReduceMod
    \/ ReduceFastRange
    \/ ReduceIdentity

SpecReduce == InitReduce /\ [][NextReduce]_vars

(***************************************************************************)
(* Properties                                                              *)
(***************************************************************************)
IsPrefix(s, t) == Len(s) <= Len(t) /\ SubSeq(t, 1, Len(s)) = s

CellQueries == { "query_at_cell", "query_at_point" }

\* the values inserted in this generation under the key of call c
InsertedAt(c) == Lookup(inserted, Key(c), << >>)

\* the values inserted in this generation under any key
InsertedNow == UNION { Range(inserted[k]) : k \in DOMAIN inserted }

\* C1: a query of the cell and salt of an earlier insert of this generation
\* returns the inserted value, provided no get_bucket call of the generation
\* ran out of probes.
C1_InsertThenQueryFinds ==
    (last.op \in CellQueries /\ ~exhausted) =>
        \A v \in Range(InsertedAt(calls[1])) : v \in Range(result)

C1_Witness ==
    /\ last.op = "query_at_cell"
    /\ ~exhausted
    /\ InsertedAt(calls[1]) # << >>
    /\ Range(InsertedAt(calls[1])) \subseteq Range(result)

\* C2: a query after a reset returns nothing that was inserted before the
\* reset: every value it adds to the result was inserted in the current
\* generation, and it adds nothing when nothing was inserted since the reset.
C2_ResetClears ==
    last.op \in CellQueries =>
        /\ \A v \in Range(result) : v \in Range(last.pre) \/ v \in InsertedNow
        /\ inserted = EmptyMap => result = last.pre

\* a cell populated before the reset is queried after it, on a table whose
\* buckets still store the old data
C2_Witness ==
    /\ last.op = "query_at_cell"
    /\ nresets > 0
    /\ Key(calls[1]) \in DOMAIN before
    /\ calls[1].prior # << >>
    /\ calls[1].how = "claimed"
    /\ inserted = EmptyMap
    /\ result = last.pre

\* C3: within a generation a repeated get_bucket for the same key returns the
\* bucket its first call returned and leaves that bucket's data as it was;
\* the operation then at most appends to it.
C3_SameBucketNoClear ==
    \A i \in DOMAIN calls :
        calls[i].repeat =>
            /\ calls[i].bucket = first[Key(calls[i])]
            /\ calls[i].data = calls[i].prior
            /\ IsPrefix(calls[i].prior, hash_table[calls[i].bucket].data)

\* a repeated call, with calls for other keys in the same generation, on a
\* bucket that holds data
C3_Witness ==
    /\ calls # << >>
    /\ calls[1].repeat
    /\ calls[1].prior # << >>
    /\ Cardinality(DOMAIN first) >= 2
    /\ calls[1].bucket = first[Key(calls[1])]

\* C4: absent probe exhaustion, a query under one salt returns no value that
\* was inserted only under other salts.
C4_SaltLayersIndependent ==
    (last.op \in CellQueries /\ ~exhausted) =>
        \A v \in Range(calls[1].data) :
            (\E k \in DOMAIN inserted : k[3] # calls[1].salt /\ v \in Range(inserted[k]))
                => (\E k \in DOMAIN inserted :
                       k[3] = calls[1].salt /\ v \in Range(inserted[k]))

\* the cells of the inclusive rectangle of a box operation's arguments
BoxCells(args) ==
    { << i, j >> : i \in cell(args[1])..cell(args[3]),
                   j \in cell(args[2])..cell(args[4]) }

Count(seq, v) == Cardinality({ i \in DOMAIN seq : seq[i] = v })

\* how often v was inserted in this generation under the keys of the calls cs
RECURSIVE CountInserted(_, _)
CountInserted(cs, v) ==
    IF cs = << >> THEN 0
    ELSE Count(InsertedAt(Head(cs)), v) + CountInserted(Tail(cs), v)

BoxOps == { "insert_at_aabb", "query_at_aabb" }

SegOps == { "insert_at_segment", "query_at_segment" }

\* the cells visited by the get_bucket calls of the latest operation, in order
CallCells == [ i \in DOMAIN calls |-> << calls[i].x, calls[i].y >> ]

\* v lies between a and b
Between(a, v, b) == (a <= v /\ v <= b) \/ (b <= v /\ v <= a)

\* the number of single-axis steps from cell c to the end cell of the segment
StepsToEnd(c) == Abs(seg.x1 - c[1]) + Abs(seg.y1 - c[2])

\* C5: the segment loops are bounded: a loop never visits more cells than a
\* walk from the start cell to the end cell has (one more than the number of
\* single-axis steps between them), and its cursor stays between the two
\* cells, so that it ends.
C5_SegmentLoopsBounded ==
    last.op \in SegOps =>
        /\ Len(calls) <= Abs(seg.x1 - seg.xs) + Abs(seg.y1 - seg.ys) + 1
        /\ Between(seg.xs, seg.x0, seg.x1)
        /\ Between(seg.ys, seg.y0, seg.y1)

\* C6: query_at_segment visits the cells insert_at_segment visits for the
\* same endpoints, in the same order.
C6_QuerySegmentSamePath ==
    last.op = "query_at_segment" =>
        LET path == insert_path(seg.xs, seg.ys, seg.x1, seg.y1)
        IN  /\ IsPrefix(CallCells, path)
            /\ pc = "idle" => CallCells = path

\* the textbook integer Bresenham line between two cells: a step may change
\* both coordinates
RECURSIVE bresenham_walk(_)
bresenham_walk(l) ==
    IF at_end(l) THEN << << l.x0, l.y0 >> >>
    ELSE LET e2 == 2 * l.err
             l1 == IF e2 >= l.dy
                   THEN [ l EXCEPT !.err = @ + l.dy, !.x0 = @ + l.sx ]
                   ELSE l
             l2 == IF e2 <= l.dx
                   THEN [ l1 EXCEPT !.err = @ + l.dx, !.y0 = @ + l.sy ]
                   ELSE l1
         IN  << << l.x0, l.y0 >> >> \o bresenham_walk(l2)

BresenhamLine(x0, y0, x1, y1) ==
    Range(bresenham_walk(
        [ x0 |-> x0, y0 |-> y0, x1 |-> x1, y1 |-> y1,
          dx |-> Abs(x1 - x0), dy |-> -Abs(y1 - y0),
          sx |-> IF x0 < x1 THEN 1 ELSE -1,
          sy |-> IF y0 < y1 THEN 1 ELSE -1,
          err |-> Abs(x1 - x0) - Abs(y1 - y0) ]))

\* a point query that follows an insert_at_segment, the only operation before
\* it in the generation, with no probe exhaustion
QueryAfterSegment ==
    /\ last.op = "query_at_point"
    /\ seg.kind = "insert"
    /\ nops = 2
    /\ nresets = 0
    /\ ~exhausted

C10_InsertSegmentTraversal ==
    last.op = "insert_at_segment" =>
        /\ seg.xs = cell(last.args[1]) /\ seg.ys = cell(last.args[2])
        /\ seg.x1 = cell(last.args[3]) /\ seg.y1 = cell(last.args[4])
        /\ calls # << >> => CallCells[1] = << seg.xs, seg.ys >>
        /\ pc = "idle" => CallCells[Len(calls)] = << seg.x1, seg.y1 >>
        /\ Between(seg.xs, seg.x0, seg.x1) /\ Between(seg.ys, seg.y0, seg.y1)
        /\ \A i, j \in DOMAIN calls : i < j => CallCells[i] # CallCells[j]
        /\ \A i \in 1..(Len(calls) - 1) :
              /\ Abs(seg.x1 - calls[i + 1].x) <= Abs(seg.x1 - calls[i].x)
              /\ Abs(seg.y1 - calls[i + 1].y) <= Abs(seg.y1 - calls[i].y)
              /\ StepsToEnd(CallCells[i + 1]) = StepsToEnd(CallCells[i]) - 1
        /\ ~exhausted =>
              \A i \in DOMAIN calls :
                  hash_table[calls[i].bucket].data = Append(calls[i].data, seg.value)

\* a finished insert along a segment that changes both coordinates
C10_Witness ==
    /\ last.op = "insert_at_segment"
    /\ pc = "idle"
    /\ seg.dx >= 2 /\ seg.dy <= -1
    /\ Len(calls) = seg.dx - seg.dy + 1
    /\ CallCells[1] = << seg.xs, seg.ys >>
    /\ CallCells[Len(calls)] = << seg.x1, seg.y1 >>
    /\ ~exhausted

\* C7: after a query the former contents of the result vector are a prefix of
\* it, the values found follow them.
C7_QueryAppends ==
    last.op \in CellQueries =>
        /\ IsPrefix(last.pre, result)
        /\ result = last.pre \o calls[1].data

IsWord(u) == u[1] \in 0..(W16 - 1) /\ u[2] \in 0..(W16 - 1)

\* C11: for every 32-bit hash and every bucket count of at least 1, the Mod
\* and the FastRange reduction give an index in [0, bucket count), so
\* get_bucket indexes inside the table with either; for the table sizes of the
\* other specifications the index is the one their get_bucket computes.
C11_ReduceInRange ==
    reduced.strategy \in { "Mod", "FastRange" } =>
        /\ IsWord(reduced.index)
        /\ Less32(reduced.index, reduced.buckets)
        /\ (reduced.strategy = "FastRange" /\ Less32(reduced.buckets, << 0, 32768 >>)) =>
              reduced.index = << 0, FastRange(reduced.hash, reduced.buckets[2]) >>

\* the largest hash on the largest table, by FastRange
C11_Witness ==
    /\ reduced.strategy = "FastRange"
    /\ reduced.hash = << 65535, 65535 >>
    /\ reduced.buckets = << 65535, 65535 >>
    /\ reduced.index = << 65535, 65534 >>

\* C19: with the Identity reduction the index is the hash itself, unclamped,
\* and for every table size up to 2^31 some key of the grid has an index at or
\* beyond the table size.
C19_IdentityOutOfRange ==
    reduced.strategy = "Identity" =>
        /\ reduced.index = reduced.hash
        /\ reduced.buckets # << 65535, 65535 >> =>
              \E k \in DOMAIN HashCache :
                  ~Less32(Identity_reduce(HashCache[k], reduced.buckets),
                          reduced.buckets)

\* the hash of a key used as index of a table of 1024 buckets and beyond it
C19_Witness ==
    /\ reduced.strategy = "Identity"
    /\ reduced.buckets = << 0, 1024 >>
    /\ \E k \in DOMAIN HashCache : reduced.hash = HashCache[k]
    /\ ~Less32(reduced.index, reduced.buckets)

Lookups == CellQueries \cup { "get_bucket" }

\* C12: whatever the load, and also after probe exhaustion, the bucket a
\* get_bucket or a query gets for a cell and salt holds every value inserted
\* under that cell and salt in this generation, as often as it was inserted,
\* and a query puts them all into the result.
C12_NoValueLost ==
    last.op \in Lookups =>
        \A v \in Values :
            /\ Count(calls[1].data, v) >= Count(InsertedAt(calls[1]), v)
            /\ last.op \in CellQueries =>
                  Count(result, v) >= Count(InsertedAt(calls[1]), v)

\* a query that ran out of probes and still returns the value inserted under
\* its key, on a table with more keys than buckets
C12_Witness ==
    /\ last.op = "query_at_cell"
    /\ calls[1].how = "exhausted"
    /\ Cardinality(DOMAIN first) > table_size
    /\ InsertedAt(calls[1]) # << >>
    /\ Range(InsertedAt(calls[1])) \subseteq Range(result)

\* bucket j is claimed in the current generation
Current(j) == hash_table[j].last_claimed = current_round

\* bucket j stores the coordinates of call c
Owns(j, c) == hash_table[j].x = c.x /\ hash_table[j].y = c.y

\* a step that is a call of one of the operations ops
StepOf(ops) == nops' = nops + 1 /\ last'.op \in ops

\* C13: get_bucket looks at no more than REHASH_ROUNDS + 1 buckets, in the
\* order of its probes; every bucket before the one it returns is claimed in
\* this generation for other coordinates and stays as it is; it returns the
\* first bucket that is stale, which it claims (generation, coordinates, data
\* cleared), or that is claimed for its coordinates, which it leaves as it
\* is; no other bucket changes.
C13_ProbeOrder ==
    [][ StepOf(Lookups) =>
          LET c == calls'[1]
          IN  /\ c.probes \in 1..(REHASH_ROUNDS + 1)
              /\ c.bucket = bucket_index(c.x, c.y, c.salt, c.probes - 1)
              /\ \A i \in 0..(c.probes - 2) :
                    /\ Current(bucket_index(c.x, c.y, c.salt, i))
                    /\ ~Owns(bucket_index(c.x, c.y, c.salt, i), c)
              /\ \A j \in 1..table_size :
                    j # c.bucket => hash_table'[j] = hash_table[j]
              /\ IF ~Current(c.bucket)
                 THEN /\ c.how = "claimed"
                      /\ hash_table'[c.bucket] =
                            [ x |-> c.x, y |-> c.y, last_claimed |-> current_round,
                              data |-> << >> ]
                 ELSE /\ hash_table'[c.bucket] = hash_table[c.bucket]
                      /\ IF Owns(c.bucket, c) THEN c.how = "found"
                         ELSE c.how = "exhausted" /\ c.probes = REHASH_ROUNDS + 1
      ]_vars

\* a call that skipped a bucket of another cell, which holds a value, and
\* claimed the stale bucket of its second probe
C13_Witness ==
    /\ last.op = "get_bucket"
    /\ calls[1].probes = 2
    /\ calls[1].how = "claimed"
    /\ calls[1].was # current_round
    /\ hash_table[calls[1].bucket] =
          [ x |-> calls[1].x, y |-> calls[1].y, last_claimed |-> current_round,
            data |-> << >> ]
    /\ \E j \in 1..table_size : j # calls[1].bucket /\ hash_table[j].data # << >>

\* the keys whose get_bucket calls of this generation returned bucket j
KeysOf(j) == { k \in DOMAIN first : first[k] = j }

\* how often v was inserted in this generation under the keys ks
RECURSIVE CountUnder(_, _)
CountUnder(ks, v) ==
    IF ks = {} THEN 0
    ELSE LET k == CHOOSE kk \in ks : TRUE
         IN  Count(Lookup(inserted, k, << >>), v) + CountUnder(ks \ { k }, v)

\* C14: a get_bucket call whose REHASH_ROUNDS + 1 probes all met buckets
\* claimed in this generation for other coordinates returns the last of them
\* with generation, coordinates and data as they were; later inserts for
\* either cell append to that bucket, and a lookup for either cell gets the
\* values of both.
C14_ExhaustionShares ==
    /\ \A i \in DOMAIN calls :
          calls[i].how = "exhausted" =>
              /\ calls[i].probes = REHASH_ROUNDS + 1
              /\ calls[i].was = current_round
              /\ calls[i].data = calls[i].prior
              /\ Current(calls[i].bucket)
              /\ ~Owns(calls[i].bucket, calls[i])
              /\ IsPrefix(calls[i].prior, hash_table[calls[i].bucket].data)
    /\ last.op \in Lookups =>
          \A v \in Values :
              Count(calls[1].data, v) = CountUnder(KeysOf(calls[1].bucket), v)

\* a query of the cell that owns a bucket returns, with its own value, the
\* value of a cell of other coordinates whose insert ran out of probes
C14_Witness ==
    /\ last.op = "query_at_cell"
    /\ calls[1].how = "found"
    /\ InsertedAt(calls[1]) # << >>
    /\ \E k \in DOMAIN inserted :
          /\ << k[1], k[2] >> # << calls[1].x, calls[1].y >>
          /\ first[k] = calls[1].bucket
          /\ Range(inserted[k]) \subseteq Range(result)
          /\ Range(inserted[k]) \cap Range(InsertedAt(calls[1])) = {}

\* the keys of KeysOf(j) whose coordinates are not the ones bucket j stores
ForeignKeysOf(j) ==
    { k \in KeysOf(j) : << k[1], k[2] >> # << hash_table[j].x, hash_table[j].y >> }

\* C15: a bucket claimed in the current generation holds the values inserted
\* in this generation under its own coordinates, and no others, unless a
\* get_bucket call that ran out of probes returned it; only after a probe
\* exhaustion does a bucket serve keys of other coordinates.
C15_CurrentBucketOneCell ==
    \A j \in 1..table_size :
        Current(j) =>
            /\ ForeignKeysOf(j) # {} => exhausted
            /\ ForeignKeysOf(j) = {} =>
                  \A v \in Values :
                      Count(hash_table[j].data, v) = CountUnder(KeysOf(j), v)

\* after a reset, with no exhaustion, a bucket holds the two values inserted
\* under its coordinates
C15_Witness ==
    /\ nresets = 1
    /\ ~exhausted
    /\ \E j \in 1..table_size :
          /\ Current(j)
          /\ ForeignKeysOf(j) = {}
          /\ Len(hash_table[j].data) = 2
          /\ \A v \in Values :
                Count(hash_table[j].data, v) = CountUnder(KeysOf(j), v)

\* C16: a reset adds exactly 1 to the generation counter and no other
\* operation changes the counter; a reset to the size the table has leaves
\* every bucket as it is, and a reset changes the bucket array only when the
\* size differs.
C16_ResetBumpsGeneration ==
    [][ /\ StepOf({ "reset" }) =>
              /\ current_round' = << current_round[1], current_round[2] + 1 >>
              /\ last'.args[2] = table_size => hash_table' = hash_table
              /\ hash_table' # hash_table => last'.args[2] # table_size
        /\ ~StepOf({ "reset" }) => current_round' = current_round
      ]_vars

\* after a reset both buckets of the table still store the data of the
\* generation before
C16_Witness ==
    /\ last.op = "reset"
    /\ current_round = << 0, 1 >>
    /\ table_size = 2
    /\ \A j \in 1..table_size :
          hash_table[j].data # << >> /\ hash_table[j].last_claimed = << 0, 0 >>

\* C17: the generation counter never holds the value a never-claimed bucket
\* carries, so such a bucket counts as stale: a get_bucket call that ends at
\* it claims it, also for the coordinates (0, 0) it is initialised with.
C17_SentinelNeverCurrent ==
    /\ current_round # SENTINEL
    /\ \A j \in 1..table_size :
          hash_table[j].last_claimed = SENTINEL =>
              ~Current(j) /\ hash_table[j].data = << >>
    /\ \A i \in DOMAIN calls :
          calls[i].was = SENTINEL => calls[i].how = "claimed"

\* after a reset, a call for the cell (0, 0) ends at a never-claimed bucket
\* and claims it
C17_Witness ==
    /\ nresets >= 1
    /\ calls # << >>
    /\ calls[1].was = SENTINEL
    /\ calls[1].x = 0 /\ calls[1].y = 0
    /\ calls[1].how = "claimed"
    /\ Current(calls[1].bucket)

\* C18: absent probe exhaustion, a query of a cell and salt gets exactly the
\* values inserted under that cell and salt in this generation, each as often
\* as it was inserted, in the order of the inserts, and nothing else.
C18_QueryReturnsExactly ==
    (last.op \in CellQueries /\ ~exhausted) =>
        calls[1].data = InsertedAt(calls[1])

\* call c is the first lookup of its cell in this generation, f being the
\* lookups up to and with c: its key was not looked up before, and no key of
\* the same coordinates under another salt either
NewCellIn(c, f) ==
    /\ ~c.repeat
    /\ \A k \in DOMAIN f :
          << k[1], k[2] >> = << c.x, c.y >> => k[3] = c.salt

NewCell(c) == NewCellIn(c, first)

\* the bucket a claim for call c leaves
Claimed(c) ==
    [ x |-> c.x, y |-> c.y, last_claimed |-> current_round, data |-> << >> ]

\* C20 as stated: a query of a cell that has no bucket in this generation
\* claims a stale bucket for it and returns nothing.
C20_QueryOfNewCellClaims ==
    (last.op \in CellQueries /\ NewCell(calls[1])) =>
        /\ calls[1].how = "claimed"
        /\ hash_table[calls[1].bucket] = Claimed(calls[1])
        /\ result = last.pre

\* C20 as amended: a query of a cell that has no bucket in this generation
\* claims a stale bucket for it and returns nothing, unless all its probes
\* meet buckets claimed in this generation for other cells; the bucket a
\* query claims was stale, and a query leaves every bucket that is claimed in
\* this generation as it is.
C20_QueryClaimsStaleOnly ==
    [][ StepOf(CellQueries) =>
          /\ (NewCellIn(calls'[1], first') /\ calls'[1].how # "exhausted") =>
                /\ calls'[1].how = "claimed"
                /\ hash_table'[calls'[1].bucket] = Claimed(calls'[1])
                /\ result' = last'.pre
          /\ calls'[1].how = "claimed" =>
                /\ ~Current(calls'[1].bucket)
                /\ hash_table' # hash_table
          /\ \A j \in 1..table_size :
                Current(j) => hash_table'[j] = hash_table[j]
      ]_vars

\* an insert runs out of probes on a table whose only bucket a query of an
\* empty cell has claimed: the value lands in the bucket of the queried cell
C20_Witness ==
    /\ last.op = "insert_at_cell"
    /\ calls[1].how = "exhausted"
    /\ nresets = 0
    /\ result = << 0 >>
    /\ DOMAIN inserted = { Key(calls[1]) }
    /\ ~Owns(calls[1].bucket, calls[1])
    /\ hash_table[calls[1].bucket].data = inserted[Key(calls[1])]

\* a step of an operation other than reset
StepBetweenResets == nops' = nops + 1 /\ nresets' = nresets

\* C21: between two resets, a bucket that is claimed in the current
\* generation stays claimed in it, keeps its stored coordinates, and keeps
\* every value it holds in place: its data changes only by values appended
\* at the end, by an insert at most one value, by a query or a bare lookup
\* none.
C21_CurrentBucketsMonotone ==
    [][ StepBetweenResets =>
          /\ Len(hash_table') = Len(hash_table)
          /\ \A j \in 1..Len(hash_table) :
                Current(j) =>
                    /\ hash_table'[j].last_claimed = current_round'
                    /\ hash_table'[j].x = hash_table[j].x
                    /\ hash_table'[j].y = hash_table[j].y
                    /\ IsPrefix(hash_table[j].data, hash_table'[j].data)
                    /\ Len(hash_table'[j].data) <= Len(hash_table[j].data) + 1
                    /\ last'.op \in Lookups =>
                          hash_table'[j].data = hash_table[j].data
      ]_vars

\* an insert found the bucket of its cell, claimed in this generation and
\* holding a value, and appended a second value, while the other bucket of
\* the table is claimed in this generation for another cell
C21_Witness ==
    /\ last.op \in { "insert_at_cell", "insert_at_point" }
    /\ calls[1].how = "found"
    /\ calls[1].was = current_round
    /\ Len(calls[1].prior) = 1
    /\ Len(hash_table[calls[1].bucket].data) = 2
    /\ IsPrefix(calls[1].prior, hash_table[calls[1].bucket].data)
    /\ table_size = 2
    /\ \A j \in 1..table_size : Current(j)
    /\ \E j \in 1..table_size : ~Owns(j, calls[1])

\* the generation g was in use before the generation now: the counter, which
\* starts at 0 and grows by one per reset, has passed it
OlderGeneration(g, now) == g[1] = 0 /\ now[1] = 0 /\ g[2] < now[2]

Inverted(args) ==
    \/ cell(args[3]) < cell(args[1])
    \/ cell(args[4]) < cell(args[2])

\* the cells of the box between the same corners, put in order
SwappedCells(args) ==
    { << i, j >> \in CachedCells \X CachedCells :
         /\ Between(cell(args[1]), i, cell(args[3]))
         /\ Between(cell(args[2]), j, cell(args[4])) }

\* C23: a box insert or box query whose corners are inverted on either axis
\* makes no get_bucket call: it leaves every bucket as it is, claims none,
\* inserts no value, and a query leaves the result as the caller passed it.
C23_InvertedBoxIsNoOp ==
    [][ (StepOf(BoxOps) /\ Inverted(last'.args)) =>
          /\ calls' = << >>
          /\ hash_table' = hash_table
          /\ first' = first
          /\ inserted' = inserted
          /\ exhausted' = exhausted
          /\ result' = last'.pre
      ]_vars

\* a box query inverted on the x axis only returns nothing, although every
\* cell of the box between the same corners holds a value of this generation
\* and the table is large enough that none was lost
C23_Witness ==
    /\ last.op = "query_at_aabb"
    /\ cell(last.args[3]) < cell(last.args[1])
    /\ cell(last.args[2]) < cell(last.args[4])
    /\ calls = << >>
    /\ result = << >>
    /\ ~exhausted
    /\ Cardinality(SwappedCells(last.args)) = 4
    /\ \A c \in SwappedCells(last.args) :
          /\ << c[1], c[2], BoxSalt >> \in DOMAIN inserted
          /\ \E j \in 1..table_size :
                /\ Current(j)
                /\ hash_table[j].x = c[1] /\ hash_table[j].y = c[2]
                /\ hash_table[j].data = inserted[<< c[1], c[2], BoxSalt >>]

====
